---- MODULE Spec2Model ----
(***************************************************************************)
(* Model of rubin.nublado.inithome: Provisioner.__init__, _validate and    *)
(* provision (provisioner.py), run against a small POSIX filesystem: the   *)
(* home path, its parent directory, and the place a symlink at the home    *)
(* path points to.  provision is modelled call by call: every filesystem   *)
(* call of its body is one step of the calling process.                    *)
(***************************************************************************)
EXTENDS Integers, Sequences, FiniteSets, TLC

VARIABLES fs, umask, inst, args, pc, stat, msg, outcome, log, ops, pre,
          failed, calls, failing, prev

vars == <<fs, umask, inst, args, pc, stat, msg, outcome, log, ops, pre,
          failed, calls, failing, prev>>

(***************************************************************************)
(* Bounds of the model.                                                    *)
(***************************************************************************)
\* provision() calls made on the one Provisioner instance
MaxCalls == 2

(***************************************************************************)
(* Program and platform constants.                                         *)
(***************************************************************************)
\* UIDs and GIDs are Python integers, which have no width; the model checker's
\* integers have 32 bits, so an identifier is held as two limbs, hi * 2^16 + lo
\* with 0 <= lo < 2^16 and hi of either sign.
Limb == 65536
Norm(h, l) == [hi |-> h + (l \div Limb), lo |-> l % Limb]
Num(n) == Norm(0, n)
NumAdd(a, b) == Norm(a.hi + b.hi, a.lo + b.lo)
NumSub(a, b) == Norm(a.hi - b.hi, a.lo - b.lo)
NumLess(a, b) == a.hi < b.hi \/ (a.hi = b.hi /\ a.lo < b.lo)
\* 2**32
Pow2_32 == Norm(Limb, 0)
\* Provisioner._MAX_ID = 2**32 - 2
MAX_ID == NumSub(Pow2_32, Num(2))
\* a umask of 0o022, the usual default, in place of 0o077
NEW_UMASK_Default == 2 * 8 + 2
\* os.umask(0o077)
NEW_UMASK == 63
\* the mode Path.mkdir() asks for: 0o777
MKDIR_MODE == 511
\* stat.st_mode & 0o777
PERM_MASK == 511
\* an expected mode of 0o775 in place of 0o700
EXPECTED_MODE_Group == 7 * 64 + 7 * 8 + 5
\* mode != 0o700
EXPECTED_MODE == 448
\* stat.S_IFMT and the file types of st_mode
S_IFMT == 61440
S_IFDIR == 16384
S_IFREG == 32768
S_IFLNK == 40960
S_IFSOCK == 49152
\* the identity of the process that creates directories (conftest: set_uid(0), set_gid(0))
CreatorUid == Num(0)
CreatorGid == Num(0)

RECURSIVE BitAnd(_, _)
BitAnd(a, b) ==
    IF a = 0 \/ b = 0 THEN 0
    ELSE (a % 2) * (b % 2) + 2 * BitAnd(a \div 2, b \div 2)

\* m & ~mask
BitClear(m, mask) == m - BitAnd(m, mask)

S_ISDIR(m) == BitAnd(m, S_IFMT) = S_IFDIR
S_ISLNK(m) == BitAnd(m, S_IFMT) = S_IFLNK

(***************************************************************************)
(* The filesystem: a function from the paths that exist to their inodes.   *)
(***************************************************************************)
Procs == {1, 2}
Paths == {"parent", "home", "target"}
\* raw integers handed to the constructor
RawIds == {Num(-1), Num(0), Num(1000), MAX_ID, NumAdd(MAX_ID, Num(1))}
\* owners found on the filesystem beforehand
FsIds == {Num(0), Num(1000), MAX_ID}
\* permission bits found beforehand: 0700, 0775, and 02700 (setgid above the mask)
FsPerms == {448, 509, 1472}
FsEntries == {{}, {"rents"}, {".profile"}}
Umasks == {0, 18, 63}
\* filesystem calls that may fail with an OSError (permission denied)
Fallible == {"mkdir", "chown", "iterdir"}

Inode(type, perm, uid, gid, entries, link) ==
    [st_mode |-> type + perm, st_uid |-> uid, st_gid |-> gid,
     entries |-> entries, link |-> link]

DirNodes ==
    {Inode(S_IFDIR, p, u, g, e, "") : p \in FsPerms, u \in FsIds, g \in FsIds, e \in FsEntries}
PlainNodes ==
    {Inode(t, 448, u, Num(1000), {}, "") : t \in {S_IFREG, S_IFSOCK}, u \in {Num(0), Num(1000)}}
LinkNode == Inode(S_IFLNK, 511, Num(0), Num(0), {}, "target")
ParentNode == Inode(S_IFDIR, 493, Num(0), Num(0), {}, "")

\* the path a stat() of path ends at: one symlink is followed
Resolve(f, path) ==
    IF path \in DOMAIN f /\ S_ISLNK(f[path].st_mode) THEN f[path].link ELSE path

\* Path.exists(): stat() succeeds
PathExists(f, path) == Resolve(f, path) \in DOMAIN f

\* is_file() called where is_dir() was meant
PathIsDir_File(f, path) ==
    PathExists(f, path) /\ BitAnd(f[Resolve(f, path)].st_mode, S_IFMT) = S_IFREG

\* is_dir() taken to hold of whatever exists
PathIsDir_Any(f, path) == PathExists(f, path)

\* Path.is_dir(): stat() succeeds and S_ISDIR
PathIsDir(f, path) ==
    PathExists(f, path) /\ S_ISDIR(f[Resolve(f, path)].st_mode)

\* f with path bound to node
Bind(f, path, node) ==
    [q \in DOMAIN f \cup {path} |-> IF q = path THEN node ELSE f[q]]

\* filesystems the program may start from
InitFs ==
    LET base == [q \in {"parent"} |-> ParentNode] IN
    {<<>>} \cup {base}
    \cup {Bind(base, "home", n) : n \in DirNodes \cup PlainNodes}
    \cup {Bind(base, "home", LinkNode)}
    \cup {Bind(Bind(base, "home", LinkNode), "target", n) : n \in DirNodes \cup PlainNodes}

NoStat == [st_mode |-> 0, st_uid |-> Num(0), st_gid |-> Num(0)]
NoOutcome == [kind |-> "none", text |-> ""]
NoInst == [state |-> "none", uid |-> Num(0), gid |-> Num(0), text |-> ""]
NoPre == [fs |-> <<>>, umask |-> 0]
\* what is remembered of a process's previous call: nothing yet
NoPrev == [outcome |-> NoOutcome, log |-> <<>>, ops |-> <<>>, before |-> <<>>, after |-> <<>>]

(***************************************************************************)
(* Provisioner._validate and Provisioner.__init__                          *)
(***************************************************************************)
\* a range test that also turns the largest identifier away
_validate_Exclusive(ugid) ==
    IF NumLess(ugid, Num(0)) THEN [ok |-> FALSE, value |-> Num(0), text |-> "must be nonnegative"]
    ELSE IF ~NumLess(ugid, MAX_ID) THEN [ok |-> FALSE, value |-> Num(0), text |-> "out of range"]
    ELSE [ok |-> TRUE, value |-> ugid, text |-> ""]

\* a range test with its two messages exchanged
_validate_Swapped(ugid) ==
    IF NumLess(ugid, Num(0)) THEN [ok |-> FALSE, value |-> Num(0), text |-> "out of range"]
    ELSE IF NumLess(MAX_ID, ugid) THEN [ok |-> FALSE, value |-> Num(0), text |-> "must be nonnegative"]
    ELSE [ok |-> TRUE, value |-> ugid, text |-> ""]

_validate(ugid) ==
    IF NumLess(ugid, Num(0)) THEN [ok |-> FALSE, value |-> Num(0), text |-> "must be nonnegative"]
    ELSE IF NumLess(MAX_ID, ugid) THEN [ok |-> FALSE, value |-> Num(0), text |-> "out of range"]
    ELSE [ok |-> TRUE, value |-> ugid, text |-> ""]

NewProvisioner(uid, gid) ==
    LET u == _validate(uid)
        g == _validate(gid)
    IN  IF ~u.ok THEN [state |-> "ValueError", uid |-> Num(0), gid |-> Num(0), text |-> u.text]
        ELSE IF ~g.ok THEN [state |-> "ValueError", uid |-> u.value, gid |-> Num(0), text |-> g.text]
        ELSE [state |-> "ok", uid |-> u.value, gid |-> g.value, text |-> ""]

Construct ==
    /\ inst.state = "none"
    /\ \E uid \in RawIds, gid \in RawIds :
         /\ args' = [uid |-> uid, gid |-> gid]
         /\ inst' = NewProvisioner(uid, gid)
    /\ UNCHANGED <<fs, umask, pc, stat, msg, outcome, log, ops, pre, failed, calls, failing, prev>>

(***************************************************************************)
(* Initial states                                                          *)
(***************************************************************************)
InitCommon ==
    /\ fs \in InitFs
    /\ umask \in Umasks
    /\ inst = NoInst
    /\ args = [uid |-> Num(0), gid |-> Num(0)]
    /\ pc = [p \in Procs |-> "idle"]
    /\ stat = [p \in Procs |-> NoStat]
    /\ msg = [p \in Procs |-> ""]
    /\ outcome = [p \in Procs |-> NoOutcome]
    /\ log = [p \in Procs |-> <<>>]
    /\ ops = [p \in Procs |-> <<>>]
    /\ pre = [p \in Procs |-> NoPre]
    /\ failed = [p \in Procs |-> "none"]
    /\ calls = 0
    /\ prev = [p \in Procs |-> NoPrev]

\* every filesystem call succeeds unless the filesystem's state forbids it
Init == InitCommon /\ failing = {}

\* any of the fallible filesystem calls may be denied
InitFault == InitCommon /\ failing \in SUBSET Fallible

(***************************************************************************)
(* Provisioner.provision, one step per filesystem call                     *)
(***************************************************************************)
Op(call, a, b, ok) == [call |-> call, a |-> a, b |-> b, ok |-> ok]

\* leave provision() by raising
Raise(p, kind, text) ==
    /\ pc' = [pc EXCEPT ![p] = "done"]
    /\ outcome' = [outcome EXCEPT ![p] = [kind |-> kind, text |-> text]]

\* leave provision() by returning
Return(p) ==
    /\ pc' = [pc EXCEPT ![p] = "done"]
    /\ outcome' = [outcome EXCEPT ![p] = [kind |-> "returned", text |-> ""]]

Goto(p, label) ==
    /\ pc' = [pc EXCEPT ![p] = label]
    /\ UNCHANGED outcome

\* a chown that sets the user and leaves the group
ChownFs_UidOnly(f, path, uid, gid) ==
    [f EXCEPT ![Resolve(f, path)].st_uid = uid]

\* os.chown(path, uid, gid) on a path whose stat() succeeds: symlinks are followed
ChownFs(f, path, uid, gid) ==
    [f EXCEPT ![Resolve(f, path)].st_uid = uid, ![Resolve(f, path)].st_gid = gid]

\* Path.mkdir() where it is allowed: mode 0o777 less the umask, the creator's identity
MkdirFs(f, path, mask) ==
    Bind(f, path, Inode(S_IFDIR, BitClear(MKDIR_MODE, mask), CreatorUid, CreatorGid, {}, ""))

\* a mkdir whose failures are reported as the invalid-home error
MkdirError_Wrapped(f, path, denied) ==
    IF path \in DOMAIN f \/ "parent" \notin DOMAIN f \/ denied THEN "InvalidHomeError"
    ELSE "none"

\* mkdir(parents=True): a missing parent is no error
MkdirError_Parents(f, path, denied) ==
    IF path \in DOMAIN f THEN "FileExistsError"
    ELSE IF denied THEN "PermissionError"
    ELSE "none"

\* the exception Path.mkdir() raises, "none" where it creates the directory:
\* the path is taken (a dangling symlink too), its parent is missing, or the
\* call is denied
MkdirError(f, path, denied) ==
    IF path \in DOMAIN f THEN "FileExistsError"
    ELSE IF "parent" \notin DOMAIN f THEN "FileNotFoundError"
    ELSE IF denied THEN "PermissionError"
    ELSE "none"

\* the exception os.chown() raises, "none" where it changes the owner
ChownError(f, path, denied) ==
    IF ~PathExists(f, path) THEN "FileNotFoundError"
    ELSE IF denied THEN "PermissionError"
    ELSE "none"

\* an emptiness test that skips dot-prefixed entries
IsEmpty_Visible(f, path) == f[Resolve(f, path)].entries \subseteq {".profile"}

\* no repair path: a wrongly owned directory is never taken as empty
IsEmpty_Never(f, path) == Cardinality(f[Resolve(f, path)].entries) < 0

\* an emptiness test with its sense inverted
IsEmpty_Inverted(f, path) == Cardinality(f[Resolve(f, path)].entries) # 0

\* line 77: is_empty = len(list(self._home.iterdir())) == 0
IsEmpty(f, path) == Cardinality(f[Resolve(f, path)].entries) = 0

\* the ownership test of line 72
OwnerDiffers(st, uid, gid) == st.st_uid # uid \/ st.st_gid # gid

\* the whole of st_mode, file type included, taken as the permission bits
PermBits_Unmasked(st) == st.st_mode

\* the permission bits of line 84
PermBits(st) == BitAnd(st.st_mode, PERM_MASK)

OwnerMsg(st, uid, gid) ==
    [owned |-> <<st.st_uid, st.st_gid>>, expected |-> <<uid, gid>>]

\* the caller awaits provisioner.provision()
Call(p) ==
    /\ pc[p] = "idle"
    /\ inst.state = "ok"
    /\ calls < MaxCalls
    /\ calls' = calls + 1
    /\ pc' = [pc EXCEPT ![p] = "exists"]
    /\ stat' = [stat EXCEPT ![p] = NoStat]
    /\ msg' = [msg EXCEPT ![p] = ""]
    /\ outcome' = [outcome EXCEPT ![p] = NoOutcome]
    /\ log' = [log EXCEPT ![p] = <<>>]
    /\ ops' = [ops EXCEPT ![p] = <<>>]
    /\ failed' = [failed EXCEPT ![p] = "none"]
    /\ pre' = [pre EXCEPT ![p] = [fs |-> fs, umask |-> umask]]
    /\ UNCHANGED <<fs, umask, inst, args, failing, prev>>

\* a Provisioner that remembers a failure and raises it again on the next call
CheckExists_Latched(p) ==
    /\ pc[p] = "exists"
    /\ IF prev[p].outcome.kind \notin {"none", "returned"}
         THEN Raise(p, prev[p].outcome.kind, prev[p].outcome.text)
         ELSE IF ~PathExists(fs, "home") THEN Goto(p, "umask") ELSE Goto(p, "is_dir")
    /\ UNCHANGED <<fs, umask, inst, args, stat, msg, log, ops, pre, failed, calls, failing, prev>>

\* line 59: if not self._home.exists()
CheckExists(p) ==
    /\ pc[p] = "exists"
    /\ IF ~PathExists(fs, "home") THEN Goto(p, "umask") ELSE Goto(p, "is_dir")
    /\ UNCHANGED <<fs, umask, inst, args, stat, msg, log, ops, pre, failed, calls, failing, prev>>

\* the umask call left out
SetUmask_Keep(p) ==
    /\ pc[p] = "umask"
    /\ Goto(p, "mkdir")
    /\ UNCHANGED <<fs, umask, inst, args, stat, msg, log, ops, pre, failed, calls, failing, prev>>

\* line 60: os.umask(0o077)
SetUmask(p) ==
    /\ pc[p] = "umask"
    /\ umask' = NEW_UMASK
    /\ ops' = [ops EXCEPT ![p] = Append(@, Op("umask", Num(NEW_UMASK), Num(0), TRUE))]
    /\ Goto(p, "mkdir")
    /\ UNCHANGED <<fs, inst, args, stat, msg, log, pre, failed, calls, failing, prev>>

\* line 61: self._home.mkdir()
Mkdir(p) ==
    /\ pc[p] = "mkdir"
    /\ IF MkdirError(fs, "home", "mkdir" \in failing) # "none" THEN
            /\ Raise(p, MkdirError(fs, "home", "mkdir" \in failing), "")
            /\ failed' = [failed EXCEPT ![p] = "mkdir"]
            /\ ops' = [ops EXCEPT ![p] = Append(@, Op("mkdir", Num(0), Num(0), FALSE))]
            /\ UNCHANGED fs
       ELSE /\ fs' = MkdirFs(fs, "home", umask)
            /\ ops' = [ops EXCEPT ![p] = Append(@, Op("mkdir", Num(0), Num(0), TRUE))]
            /\ Goto(p, "chown_new")
            /\ UNCHANGED failed
    /\ UNCHANGED <<umask, inst, args, stat, msg, log, pre, calls, failing, prev>>

\* a chown whose failure is swallowed: provision() carries on
Chown_Swallow(p, next) ==
    /\ IF ChownError(fs, "home", "chown" \in failing) # "none"
         THEN /\ UNCHANGED fs
              /\ ops' = [ops EXCEPT ![p] = Append(@, Op("chown", inst.uid, inst.gid, FALSE))]
         ELSE /\ fs' = ChownFs(fs, "home", inst.uid, inst.gid)
              /\ ops' = [ops EXCEPT ![p] = Append(@, Op("chown", inst.uid, inst.gid, TRUE))]
    /\ UNCHANGED failed
    /\ IF next = "done" THEN Return(p) ELSE Goto(p, next)

\* os.chown(self._home, self._uid, self._gid), then control passes to label next
Chown(p, next) ==
    IF ChownError(fs, "home", "chown" \in failing) # "none" THEN
         /\ Raise(p, ChownError(fs, "home", "chown" \in failing), "")
         /\ failed' = [failed EXCEPT ![p] = "chown"]
         /\ ops' = [ops EXCEPT ![p] = Append(@, Op("chown", inst.uid, inst.gid, FALSE))]
         /\ UNCHANGED fs
    ELSE /\ fs' = ChownFs(fs, "home", inst.uid, inst.gid)
         /\ ops' = [ops EXCEPT ![p] = Append(@, Op("chown", inst.uid, inst.gid, TRUE))]
         /\ UNCHANGED failed
         /\ IF next = "done" THEN Return(p) ELSE Goto(p, next)

\* lines 62-63: chown the new directory and return
ChownNew(p) ==
    /\ pc[p] = "chown_new"
    /\ Chown(p, "done")
    /\ UNCHANGED <<umask, inst, args, stat, msg, log, pre, calls, failing, prev>>

\* lines 66-68: if not self._home.is_dir(): raise InvalidHomeError
CheckIsDir(p) ==
    /\ pc[p] = "is_dir"
    /\ IF ~PathIsDir(fs, "home")
         THEN Raise(p, "InvalidHomeError", "exists but is not a directory")
         ELSE Goto(p, "stat")
    /\ UNCHANGED <<fs, umask, inst, args, stat, msg, log, ops, pre, failed, calls, failing, prev>>

\* lines 71-76: stat = self._home.stat() and the ownership test
Stat(p) ==
    /\ pc[p] = "stat"
    /\ IF ~PathExists(fs, "home") THEN
            /\ Raise(p, "FileNotFoundError", "")
            /\ failed' = [failed EXCEPT ![p] = "stat"]
            /\ UNCHANGED <<stat, msg>>
       ELSE LET st == fs[Resolve(fs, "home")]
                s == [st_mode |-> st.st_mode, st_uid |-> st.st_uid, st_gid |-> st.st_gid]
            IN  /\ stat' = [stat EXCEPT ![p] = s]
                /\ UNCHANGED failed
                /\ IF OwnerDiffers(s, inst.uid, inst.gid)
                     THEN /\ msg' = [msg EXCEPT ![p] = "is owned by"]
                          /\ Goto(p, "iterdir")
                     ELSE /\ UNCHANGED msg
                          /\ Goto(p, "mode")
    /\ UNCHANGED <<fs, umask, inst, args, log, ops, pre, calls, failing, prev>>

\* lines 77-80: list the directory; raise if it has entries, else warn
Iterdir(p) ==
    /\ pc[p] = "iterdir"
    /\ IF ~PathExists(fs, "home") THEN
            /\ Raise(p, "FileNotFoundError", "")
            /\ failed' = [failed EXCEPT ![p] = "iterdir"]
            /\ UNCHANGED log
       ELSE IF ~PathIsDir(fs, "home") THEN
            /\ Raise(p, "NotADirectoryError", "")
            /\ failed' = [failed EXCEPT ![p] = "iterdir"]
            /\ UNCHANGED log
       ELSE IF "iterdir" \in failing THEN
            /\ Raise(p, "PermissionError", "")
            /\ failed' = [failed EXCEPT ![p] = "iterdir"]
            /\ UNCHANGED log
       ELSE LET is_empty == IsEmpty(fs, "home") IN
            /\ UNCHANGED failed
            /\ IF ~is_empty
                 THEN /\ Raise(p, "InvalidHomeError", "and is not empty")
                      /\ UNCHANGED log
                 ELSE /\ log' = [log EXCEPT ![p] = Append(@,
                                   [text |-> "but is empty, resetting ownership",
                                    info |-> OwnerMsg(stat[p], inst.uid, inst.gid)])]
                      /\ Goto(p, "chown_fix")
    /\ UNCHANGED <<fs, umask, inst, args, stat, msg, ops, pre, calls, failing, prev>>

\* line 81: chown the empty directory
ChownFix(p) ==
    /\ pc[p] = "chown_fix"
    /\ Chown(p, "mode")
    /\ UNCHANGED <<umask, inst, args, stat, msg, log, pre, calls, failing, prev>>

\* lines 84-87: warn about permission bits other than 0700, then return
CheckMode(p) ==
    /\ pc[p] = "mode"
    /\ LET mode == PermBits(stat[p]) IN
         IF mode # EXPECTED_MODE
           THEN log' = [log EXCEPT ![p] = Append(@,
                          [text |-> "has unexpected permissions",
                           info |-> [owned |-> <<mode>>, expected |-> <<EXPECTED_MODE>>]])]
           ELSE UNCHANGED log
    /\ Return(p)
    /\ UNCHANGED <<fs, umask, inst, args, stat, msg, ops, pre, failed, calls, failing, prev>>

\* the caller has the result of provision() and may call again
Finish(p) ==
    /\ pc[p] = "done"
    /\ pc' = [pc EXCEPT ![p] = "idle"]
    /\ prev' = [prev EXCEPT ![p] = [outcome |-> outcome[p], log |-> log[p], ops |-> ops[p],
                                    before |-> pre[p].fs, after |-> fs]]
    /\ UNCHANGED <<fs, umask, inst, args, stat, msg, outcome, log, ops, pre, failed, calls, failing>>

\* between two calls the caller creates the missing parent directory
MkParent ==
    /\ \A p \in Procs : pc[p] = "idle"
    /\ "parent" \notin DOMAIN fs
    /\ calls > 0
    /\ fs' = Bind(fs, "parent", ParentNode)
    /\ UNCHANGED <<umask, inst, args, pc, stat, msg, outcome, log, ops, pre, failed, calls, failing, prev>>

Next ==
    \/ Construct
    \/ Call(1)
    \/ CheckExists(1)
    \/ SetUmask(1)
    \/ Mkdir(1)
    \/ ChownNew(1)
    \/ CheckIsDir(1)
    \/ Stat(1)
    \/ Iterdir(1)
    \/ ChownFix(1)
    \/ CheckMode(1)
    \/ Finish(1)
    \/ MkParent

Spec == Init /\ [][Next]_vars

SpecFault == InitFault /\ [][Next]_vars

(***************************************************************************)
(* Vocabulary of the properties                                            *)
(***************************************************************************)
\* process p has the result of its provision() call in hand
Finished(p) == pc[p] = "done"
Returned(p) == Finished(p) /\ outcome[p].kind = "returned"
RaisedInvalidHome(p, text) ==
    Finished(p) /\ outcome[p] = [kind |-> "InvalidHomeError", text |-> text]

\* the inode a stat() of the home path yields in filesystem f
HomeNode(f) == f[Resolve(f, "home")]
HomeOwner(f) == <<HomeNode(f).st_uid, HomeNode(f).st_gid>>
Expected == <<inst.uid, inst.gid>>

\* the filesystem as process p's call found it
Before(p) == pre[p].fs
IsDirectoryAt(f) ==
    Resolve(f, "home") \in DOMAIN f /\ BitAnd(HomeNode(f).st_mode, 61440) = 16384
WasDir(p) == IsDirectoryAt(Before(p))
WasWrongOwner(p) == HomeOwner(Before(p)) # Expected
WasEmpty(p) == HomeNode(Before(p)).entries = {}
WasPerm(p) == BitAnd(HomeNode(Before(p)).st_mode, 511)

IsResetWarning(r) == r.text = "but is empty, resetting ownership"
IsPermWarning(r) == r.text = "has unexpected permissions"

(***************************************************************************)
(* C1 (Scenario A): the home path did not exist and its parent did; once   *)
(* provision() has returned, whatever the umask was before, the path is a  *)
(* directory owned by (uid, gid) with permission bits 0700.                *)
(***************************************************************************)
Thm_C1_CreatesPrivateHome ==
    \A p \in Procs :
        (Returned(p) /\ ~PathExists(Before(p), "home") /\ "parent" \in DOMAIN Before(p))
        => /\ "home" \in DOMAIN fs
           /\ S_ISDIR(fs["home"].st_mode)
           /\ <<fs["home"].st_uid, fs["home"].st_gid>> = Expected
           /\ BitAnd(fs["home"].st_mode, 511) = 448

Wit_C1_CreatedUnderOpenUmask ==
    /\ Returned(1)
    /\ "home" \notin DOMAIN Before(1)
    /\ "parent" \in DOMAIN Before(1)
    /\ pre[1].umask = 0
    /\ inst.uid = MAX_ID
    /\ ops[1][2] = Op("mkdir", Num(0), Num(0), TRUE)
    /\ BitAnd(fs["home"].st_mode, 511) = 448

(***************************************************************************)
(* C2 (Scenario C): the home path was a directory with at least one entry  *)
(* and an owner other than (uid, gid); provision() raises invalid-home     *)
(* "... and is not empty" and leaves the filesystem as it was, having made *)
(* no chown.                                                               *)
(***************************************************************************)
Thm_C2_NonEmptyWrongOwnerRefused ==
    \A p \in Procs :
        (Finished(p) /\ WasDir(p) /\ WasWrongOwner(p) /\ ~WasEmpty(p))
        => /\ RaisedInvalidHome(p, "and is not empty")
           /\ fs = Before(p)
           /\ ops[p] = <<>>

Wit_C2_DotEntryKeepsOwner ==
    /\ RaisedInvalidHome(1, "and is not empty")
    /\ WasDir(1)
    /\ HomeNode(Before(1)).entries = {".profile"}
    /\ HomeNode(Before(1)).st_uid = inst.uid
    /\ HomeNode(Before(1)).st_gid # inst.gid
    /\ HomeOwner(fs) = HomeOwner(Before(1))

(***************************************************************************)
(* C3, as stated: whenever something other than a directory is at the home *)
(* path itself -- a regular file, a socket, or a symlink whatever it       *)
(* points to -- provision() raises invalid-home "exists but is not a       *)
(* directory" and makes no filesystem call that changes anything.          *)
(***************************************************************************)
Orig_C3_SymlinkNotFollowed ==
    \A p \in Procs :
        (Finished(p) /\ "home" \in DOMAIN Before(p) /\ ~S_ISDIR(Before(p)["home"].st_mode))
        => /\ RaisedInvalidHome(p, "exists but is not a directory")
           /\ ops[p] = <<>>

(***************************************************************************)
(* C3, amended: whenever the home path, with a symlink followed as         *)
(* Path.exists() and Path.is_dir() follow it, exists and is not a          *)
(* directory -- a regular file, a socket, or a symlink to one of them --   *)
(* provision() raises invalid-home "exists but is not a directory" and     *)
(* attempts no repair: no umask change, no mkdir, no chown.                *)
(***************************************************************************)
Thm_C3_NonDirectoryRefused ==
    \A p \in Procs :
        (Finished(p) /\ PathExists(Before(p), "home") /\ ~WasDir(p))
        => /\ RaisedInvalidHome(p, "exists but is not a directory")
           /\ ops[p] = <<>>
           /\ fs = Before(p)
           /\ umask = pre[p].umask

Wit_C3_SymlinkToFileRefused ==
    /\ RaisedInvalidHome(1, "exists but is not a directory")
    /\ S_ISLNK(Before(1)["home"].st_mode)
    /\ BitAnd(HomeNode(Before(1)).st_mode, S_IFMT) = S_IFREG

(***************************************************************************)
(* C4, as stated (Scenario D): whenever the home path was an empty         *)
(* directory with an owner other than (uid, gid), provision() returns,     *)
(* logs exactly one warning, that warning says "resetting ownership", and  *)
(* the directory ends owned by (uid, gid).                                 *)
(***************************************************************************)
Orig_C4_ExactlyOneWarning ==
    \A p \in Procs :
        (Finished(p) /\ WasDir(p) /\ WasWrongOwner(p) /\ WasEmpty(p))
        => /\ Returned(p)
           /\ Len(log[p]) = 1
           /\ IsResetWarning(log[p][1])
           /\ HomeOwner(fs) = Expected

(***************************************************************************)
(* C4, amended: whenever the home path was an empty directory with an      *)
(* owner other than (uid, gid), provision() returns, its first warning     *)
(* says "resetting ownership" and reports the owner found and the owner    *)
(* expected, and the directory ends owned by (uid, gid); that warning is   *)
(* the only one exactly when the directory's permission bits are 0700,     *)
(* and otherwise one more warning, "unexpected permissions", follows it.   *)
(***************************************************************************)
Thm_C4_EmptyWrongOwnerReset ==
    \A p \in Procs :
        (Finished(p) /\ WasDir(p) /\ WasWrongOwner(p) /\ WasEmpty(p))
        => /\ Returned(p)
           /\ Len(log[p]) \in {1, 2}
           /\ IsResetWarning(log[p][1])
           /\ log[p][1].info = [owned |-> HomeOwner(Before(p)), expected |-> Expected]
           /\ (Len(log[p]) = 1) <=> (WasPerm(p) = 448)
           /\ Len(log[p]) = 2 => IsPermWarning(log[p][2])
           /\ HomeOwner(fs) = Expected
           /\ HomeNode(fs).st_mode = HomeNode(Before(p)).st_mode

Wit_C4_GroupReset ==
    /\ Returned(1)
    /\ WasDir(1) /\ WasEmpty(1)
    /\ HomeNode(Before(1)).st_uid = inst.uid
    /\ HomeNode(Before(1)).st_gid # inst.gid
    /\ WasPerm(1) = 448
    /\ Len(log[1]) = 1
    /\ HomeOwner(fs) = Expected

(***************************************************************************)
(* C5 (idempotence on a correct home): whenever the home path was a        *)
(* directory owned by (uid, gid) with permission bits 0700, whatever it    *)
(* holds, provision() returns, changes nothing on the filesystem, leaves   *)
(* the umask alone, makes no mkdir or chown, and logs nothing.             *)
(***************************************************************************)
Thm_C5_CorrectHomeUntouched ==
    \A p \in Procs :
        (Finished(p) /\ WasDir(p) /\ ~WasWrongOwner(p) /\ WasPerm(p) = 448)
        => /\ Returned(p)
           /\ fs = Before(p)
           /\ umask = pre[p].umask
           /\ ops[p] = <<>>
           /\ log[p] = <<>>

Wit_C5_FullHomeUntouched ==
    /\ Returned(1)
    /\ WasDir(1) /\ ~WasWrongOwner(1) /\ WasPerm(1) = 448
    /\ HomeNode(Before(1)).entries = {"rents"}
    /\ pre[1].umask = 18
    /\ log[1] = <<>>

(***************************************************************************)
(* C6 (Scenario F): whenever the home path was a directory owned by        *)
(* (uid, gid) whose permission bits (st_mode & 0o777) are not 0700,        *)
(* provision() returns and logs exactly one warning, "unexpected           *)
(* permissions", naming the bits found and 0700; and no call on an         *)
(* existing directory, whatever its outcome, changes the directory's mode. *)
(***************************************************************************)
Thm_C6_WrongModeWarnedNotRepaired ==
    \A p \in Procs :
        /\ (Finished(p) /\ WasDir(p) /\ ~WasWrongOwner(p) /\ WasPerm(p) # 448)
           => /\ Returned(p)
              /\ Len(log[p]) = 1
              /\ IsPermWarning(log[p][1])
              /\ log[p][1].info = [owned |-> <<WasPerm(p)>>, expected |-> <<448>>]
              /\ fs = Before(p)
        /\ (pc[p] # "idle" /\ WasDir(p))
           => /\ IsDirectoryAt(fs)
              /\ HomeNode(fs).st_mode = HomeNode(Before(p)).st_mode

Wit_C6_GroupWritableWarned ==
    /\ Returned(1)
    /\ WasDir(1) /\ ~WasWrongOwner(1)
    /\ WasPerm(1) = 509
    /\ Len(log[1]) = 1
    /\ BitAnd(HomeNode(fs).st_mode, 511) = 509

(***************************************************************************)
(* C7 (no partial success): with any of mkdir, chown and the directory     *)
(* listing free to fail, a provision() that returns leaves the home path a *)
(* directory owned by (uid, gid); it never returns while the path is       *)
(* absent, is not a directory, or has another owner.                       *)
(***************************************************************************)
Thm_C7_ReturnMeansOwnedDirectory ==
    \A p \in Procs :
        Returned(p)
        => /\ IsDirectoryAt(fs)
           /\ HomeNode(fs).st_uid = inst.uid
           /\ HomeNode(fs).st_gid = inst.gid

Wit_C7_ReturnedDespiteDeniedListing ==
    /\ Returned(1)
    /\ failing = {"iterdir"}
    /\ "home" \notin DOMAIN Before(1)
    /\ inst.uid # CreatorUid
    /\ HomeOwner(fs) = Expected

(***************************************************************************)
(* C8: provision() raises invalid-home only if (a) the home path exists    *)
(* and is not a directory or (b) it is a directory with an owner other     *)
(* than (uid, gid) and at least one entry; in case (a) it always does, and *)
(* in case (b) it does unless the listing itself failed.  A filesystem     *)
(* call that fails (mkdir under a missing parent or on a taken name, a     *)
(* denied mkdir, chown or listing) reaches the caller as that OSError,     *)
(* never as invalid-home.  "Exists" and "is a directory" are what          *)
(* Path.exists() and Path.is_dir() report.                                 *)
(***************************************************************************)
Thm_C8_InvalidHomeExactly ==
    \A p \in Procs :
        Finished(p) =>
        LET condA == PathExists(Before(p), "home") /\ ~WasDir(p)
            condB == WasDir(p) /\ WasWrongOwner(p) /\ ~WasEmpty(p)
        IN  /\ outcome[p].kind = "InvalidHomeError" => (condA \/ condB)
            /\ condA => RaisedInvalidHome(p, "exists but is not a directory")
            /\ (condB /\ failed[p] = "none") => RaisedInvalidHome(p, "and is not empty")
            /\ (failed[p] # "none")
               <=> outcome[p].kind \in {"FileNotFoundError", "FileExistsError", "PermissionError"}
            /\ (failed[p] = "mkdir" /\ "parent" \notin DOMAIN Before(p))
               => outcome[p].kind = "FileNotFoundError"
            /\ (failed[p] = "chown") => outcome[p].kind = "PermissionError"

Wit_C8_DeniedChownIsOSError ==
    /\ Finished(1)
    /\ WasDir(1) /\ WasEmpty(1) /\ WasWrongOwner(1)
    /\ failed[1] = "chown"
    /\ outcome[1].kind = "PermissionError"

(***************************************************************************)
(* C9 (Scenario B): whenever the parent of the home path did not exist,    *)
(* provision() raises FileNotFoundError, not invalid-home, and no          *)
(* directory is created at the home path.                                  *)
(***************************************************************************)
Thm_C9_MissingParentIsFileNotFound ==
    \A p \in Procs :
        (Finished(p) /\ "parent" \notin DOMAIN Before(p))
        => /\ outcome[p].kind = "FileNotFoundError"
           /\ "home" \notin DOMAIN fs
           /\ fs = Before(p)

Wit_C9_MkdirUnderMissingParent ==
    /\ Finished(1)
    /\ "parent" \notin DOMAIN Before(1)
    /\ Len(ops[1]) = 2
    /\ ops[1][2] = Op("mkdir", Num(0), Num(0), FALSE)
    /\ outcome[1].kind = "FileNotFoundError"

(***************************************************************************)
(* C10: for integers u, g with 0 <= u, g <= 2^32 - 2, both ends included,  *)
(* constructing a Provisioner succeeds and keeps them unchanged: every     *)
(* chown the Provisioner makes is to (u, g), and its ownership test takes  *)
(* the "differs" branch exactly when the owner found is not (u, g).        *)
(***************************************************************************)
InIdRange(n) == ~NumLess(n, Num(0)) /\ ~NumLess(NumSub(Pow2_32, Num(2)), n)

Thm_C10_ValidIdsKept ==
    /\ (inst.state # "none" /\ InIdRange(args.uid) /\ InIdRange(args.gid))
       => inst = [state |-> "ok", uid |-> args.uid, gid |-> args.gid, text |-> ""]
    /\ \A p \in Procs :
        /\ \A i \in 1..Len(ops[p]) :
               ops[p][i].call = "chown" => <<ops[p][i].a, ops[p][i].b>> = <<args.uid, args.gid>>
        /\ pc[p] = "iterdir" => <<stat[p].st_uid, stat[p].st_gid>> # <<args.uid, args.gid>>
        /\ (pc[p] = "mode" /\ msg[p] = "")
               => <<stat[p].st_uid, stat[p].st_gid>> = <<args.uid, args.gid>>

Wit_C10_LargestAndZeroKept ==
    /\ args = [uid |-> [hi |-> 65535, lo |-> 65534], gid |-> [hi |-> 0, lo |-> 0]]
    /\ inst.state = "ok"
    /\ Returned(1)
    /\ "home" \notin DOMAIN Before(1)
    /\ HomeOwner(fs) = <<[hi |-> 65535, lo |-> 65534], [hi |-> 0, lo |-> 0]>>

(***************************************************************************)
(* C11, as stated: a negative UID or GID makes construction fail with      *)
(* "must be nonnegative", and a UID or GID above 2^32 - 2 makes it fail    *)
(* with "out of range", whatever the other identifier is.                  *)
(***************************************************************************)
IsNegativeId(n) == NumLess(n, Num(0))
IsTooLargeId(n) == NumLess(NumSub(Pow2_32, Num(2)), n)
FailedWith(text) == inst.state = "ValueError" /\ inst.text = text

Orig_C11_MessageOfEitherId ==
    inst.state # "none" =>
        /\ (IsNegativeId(args.uid) \/ IsNegativeId(args.gid)) => FailedWith("must be nonnegative")
        /\ (IsTooLargeId(args.uid) \/ IsTooLargeId(args.gid)) => FailedWith("out of range")

(***************************************************************************)
(* C11, amended: construction fails with ValueError whenever the UID or    *)
(* the GID is out of [0, 2^32 - 2], even if the other one is valid, and no *)
(* provision() can then be called.  The message is that of the UID when    *)
(* the UID is invalid and otherwise that of the GID: "must be nonnegative" *)
(* for a negative value, "out of range" for a value of 2^32 - 1 or more;   *)
(* the message is never the one of the other kind for that identifier.     *)
(***************************************************************************)
Thm_C11_MessageOfFirstInvalidId ==
    inst.state # "none" =>
        /\ IsNegativeId(args.uid) => FailedWith("must be nonnegative")
        /\ IsTooLargeId(args.uid) => FailedWith("out of range")
        /\ (InIdRange(args.uid) /\ IsNegativeId(args.gid)) => FailedWith("must be nonnegative")
        /\ (InIdRange(args.uid) /\ IsTooLargeId(args.gid)) => FailedWith("out of range")
        /\ inst.state = "ValueError" => (calls = 0 /\ \A p \in Procs : pc[p] = "idle")

Wit_C11_GidAboveRangeAlone ==
    /\ args = [uid |-> [hi |-> 0, lo |-> 1000], gid |-> [hi |-> 65535, lo |-> 65535]]
    /\ FailedWith("out of range")

(***************************************************************************)
(* Another actor on the filesystem: while provision() runs, it creates an  *)
(* entry in the home directory.                                            *)
(***************************************************************************)
ActorEntries == {"rents", ".profile"}

ActorCreate ==
    /\ pc[1] \notin {"idle", "done"}
    /\ PathIsDir(fs, "home")
    /\ \E e \in ActorEntries \ fs[Resolve(fs, "home")].entries :
         fs' = [fs EXCEPT ![Resolve(fs, "home")].entries = @ \cup {e}]
    /\ UNCHANGED <<umask, inst, args, pc, stat, msg, outcome, log, ops, pre, failed, calls, failing, prev>>

NextActor ==
    \/ Next
    \/ ActorCreate

SpecActor == Init /\ [][NextActor]_vars

(***************************************************************************)
(* C12: the chown of line 81, the one applied to a directory that was      *)
(* there before the call, is never applied while the directory holds an    *)
(* entry, also when another actor creates an entry during the call.        *)
(***************************************************************************)
Orig_C12_NoChownOfNonEmptyDir ==
    [][\A p \in Procs :
          (pc[p] = "chown_fix" /\ pc'[p] = "mode") => fs[Resolve(fs, "home")].entries = {}]_vars

(***************************************************************************)
(* An interrupted creation: the process is stopped between mkdir (line 61) *)
(* and chown (line 62), or its chown is denied; later the denial is lifted *)
(* and provision() is called again.                                        *)
(***************************************************************************)
Interrupt(p) ==
    /\ pc[p] = "chown_new"
    /\ pc' = [pc EXCEPT ![p] = "done"]
    /\ outcome' = [outcome EXCEPT ![p] = [kind |-> "interrupted", text |-> ""]]
    /\ UNCHANGED <<fs, umask, inst, args, stat, msg, log, ops, pre, failed, calls, failing, prev>>

\* between two calls the process is given the right to chown
Mend ==
    /\ \A p \in Procs : pc[p] = "idle"
    /\ calls > 0
    /\ failing # {}
    /\ failing' = {}
    /\ UNCHANGED <<fs, umask, inst, args, pc, stat, msg, outcome, log, ops, pre, failed, calls, prev>>

InitRecover == InitCommon /\ failing \in SUBSET {"chown"}

NextRecover ==
    \/ Next
    \/ Interrupt(1)
    \/ Mend

SpecRecover == InitRecover /\ [][NextRecover]_vars

(***************************************************************************)
(* C13: an earlier provision() created the directory and then failed at    *)
(* its chown or was stopped before it, leaving an empty directory owned by *)
(* its creator; a later provision() with the same path, uid and gid, run   *)
(* while the directory is still as it was left, never raises invalid-home, *)
(* and, unless one of its own filesystem calls fails, returns with the     *)
(* directory owned by (uid, gid).                                          *)
(***************************************************************************)
LeftHalfCreated(p) ==
    /\ prev[p].outcome.kind \in {"interrupted", "PermissionError"}
    /\ Len(prev[p].ops) >= 2
    /\ prev[p].ops[2] = [call |-> "mkdir", a |-> Num(0), b |-> Num(0), ok |-> TRUE]
    /\ "home" \notin DOMAIN prev[p].before
    /\ Before(p) = prev[p].after
    /\ IsDirectoryAt(Before(p))
    /\ WasEmpty(p)

Thm_C13_HalfCreatedHomeRecovered ==
    \A p \in Procs :
        (Finished(p) /\ outcome[p].kind # "interrupted" /\ LeftHalfCreated(p))
        => /\ outcome[p].kind # "InvalidHomeError"
           /\ failed[p] = "none"
              => /\ Returned(p)
                 /\ IsDirectoryAt(fs)
                 /\ HomeOwner(fs) = Expected
                 /\ HomeNode(fs).entries = {}

Wit_C13_RecoveredAfterDeniedChown ==
    /\ Returned(1)
    /\ LeftHalfCreated(1)
    /\ prev[1].outcome.kind = "PermissionError"
    /\ HomeOwner(Before(1)) = <<Num(0), Num(0)>>
    /\ inst.uid = [hi |-> 0, lo |-> 1000]
    /\ Len(log[1]) = 1 /\ IsResetWarning(log[1][1])
    /\ HomeOwner(fs) = Expected

(***************************************************************************)
(* Two callers run provision() with the same path, uid and gid at the same *)
(* time; their filesystem calls interleave freely.                         *)
(***************************************************************************)
NextConc ==
    \/ Construct
    \/ \E p \in Procs : Call(p)
    \/ \E p \in Procs : CheckExists(p)
    \/ \E p \in Procs : SetUmask(p)
    \/ \E p \in Procs : Mkdir(p)
    \/ \E p \in Procs : ChownNew(p)
    \/ \E p \in Procs : CheckIsDir(p)
    \/ \E p \in Procs : Stat(p)
    \/ \E p \in Procs : Iterdir(p)
    \/ \E p \in Procs : ChownFix(p)
    \/ \E p \in Procs : CheckMode(p)
    \/ \E p \in Procs : Finish(p)

SpecConc == Init /\ [][NextConc]_vars

(***************************************************************************)
(* C14: two provision() calls with the same path, uid and gid run          *)
(* concurrently on a path that was absent, with its parent present, when   *)
(* the first of them started; there is no other actor and no call is       *)
(* denied.  In every interleaving, once both have finished: neither has    *)
(* raised invalid-home (each has returned or raised FileExistsError from   *)
(* mkdir), at least one has returned, and the path is a directory owned by *)
(* (uid, gid) with permission bits 0700.                                   *)
(***************************************************************************)
StartedOnAbsentPath ==
    \E p \in Procs : "home" \notin DOMAIN Before(p) /\ "parent" \in DOMAIN Before(p)

Thm_C14_ConcurrentCreationConverges ==
    ((\A p \in Procs : Finished(p)) /\ StartedOnAbsentPath)
    => /\ \A p \in Procs : outcome[p].kind \in {"returned", "FileExistsError"}
       /\ \E p \in Procs : Returned(p)
       /\ "home" \in DOMAIN fs
       /\ BitAnd(fs["home"].st_mode, 61440) = 16384
       /\ <<fs["home"].st_uid, fs["home"].st_gid>> = Expected
       /\ BitAnd(fs["home"].st_mode, 511) = 448
       /\ fs["home"].entries = {}

Wit_C14_SecondCallerResetsOwner ==
    /\ Returned(1) /\ Returned(2)
    /\ "home" \notin DOMAIN Before(1)
    /\ Len(ops[1]) = 3
    /\ ops[1][2] = [call |-> "mkdir", a |-> Num(0), b |-> Num(0), ok |-> TRUE]
    /\ "home" \in DOMAIN Before(2)
    /\ Len(log[2]) = 1 /\ IsResetWarning(log[2][1])
    /\ Len(ops[2]) = 1 /\ ops[2][1].call = "chown"

(***************************************************************************)
(* C15 (idempotence of the operation): a first provision() has returned;   *)
(* a second one with the same path, uid and gid, started on the filesystem *)
(* exactly as the first left it, returns as well and leaves the filesystem *)
(* (existence, kind, owner, mode and entries of every path) as the first   *)
(* call left it.                                                           *)
(***************************************************************************)
Thm_C15_SecondCallChangesNothing ==
    \A p \in Procs :
        (Finished(p) /\ prev[p].outcome.kind = "returned" /\ Before(p) = prev[p].after)
        => /\ Returned(p)
           /\ fs = prev[p].after
           /\ ops[p] = <<>>

Wit_C15_SecondCallAfterCreation ==
    /\ Returned(1)
    /\ prev[1].outcome.kind = "returned"
    /\ "home" \notin DOMAIN prev[1].before
    /\ "home" \in DOMAIN prev[1].after
    /\ Before(1) = prev[1].after
    /\ fs = prev[1].after
    /\ inst.gid = [hi |-> 65535, lo |-> 65534]

(***************************************************************************)
(* C16: a Provisioner keeps no state between calls.  Two calls on the same *)
(* instance that start from the same filesystem have the same outcome, the *)
(* same warnings, the same filesystem calls and the same resulting         *)
(* filesystem, whatever the earlier call did and whatever the umask was;   *)
(* and after a call that failed because the parent was missing, a call     *)
(* made once the parent exists returns with the home a directory owned by  *)
(* (uid, gid) with permission bits 0700.                                   *)
(***************************************************************************)
Thm_C16_OutcomeFromFilesystemOnly ==
    \A p \in Procs :
        /\ (Finished(p) /\ prev[p].outcome.kind # "none" /\ Before(p) = prev[p].before)
           => /\ outcome[p] = prev[p].outcome
              /\ log[p] = prev[p].log
              /\ ops[p] = prev[p].ops
              /\ fs = prev[p].after
        /\ (Finished(p) /\ prev[p].outcome.kind = "FileNotFoundError"
                /\ "parent" \notin DOMAIN prev[p].before /\ "parent" \in DOMAIN Before(p))
           => /\ Returned(p)
              /\ "home" \in DOMAIN fs
              /\ BitAnd(fs["home"].st_mode, 61440) = 16384
              /\ <<fs["home"].st_uid, fs["home"].st_gid>> = Expected
              /\ BitAnd(fs["home"].st_mode, 511) = 448

Wit_C16_SucceedsOnceParentExists ==
    /\ Returned(1)
    /\ prev[1].outcome.kind = "FileNotFoundError"
    /\ "parent" \notin DOMAIN prev[1].before
    /\ "parent" \in DOMAIN Before(1)
    /\ "home" \in DOMAIN fs
    /\ inst.uid = [hi |-> 0, lo |-> 1000]
    /\ fs["home"].st_uid = [hi |-> 0, lo |-> 1000]

(***************************************************************************)
(* C17: provision() changes the process umask only where the home path     *)
(* does not exist.  There it is 077 from before the mkdir on and stays 077 *)
(* when the call ends, whether mkdir and chown succeed or fail; where the  *)
(* path exists (return, warning or invalid-home) the umask stays what it   *)
(* was when the call began.                                                *)
(***************************************************************************)
Thm_C17_UmaskOnlyOnCreation ==
    \A p \in Procs :
        /\ pc[p] \in {"mkdir", "chown_new"} => umask = 63
        /\ pc[p] \in {"is_dir", "stat", "iterdir", "chown_fix", "mode"} => umask = pre[p].umask
        /\ Finished(p) =>
             IF Resolve(Before(p), "home") \in DOMAIN Before(p)
               THEN /\ umask = pre[p].umask
                    /\ \A i \in 1..Len(ops[p]) : ops[p][i].call # "umask"
               ELSE /\ umask = 63
                    /\ Len(ops[p]) >= 2
                    /\ ops[p][1] = [call |-> "umask", a |-> Num(63), b |-> Num(0), ok |-> TRUE]
                    /\ ops[p][2].call = "mkdir"

Wit_C17_UmaskKeptAfterDeniedChown ==
    /\ Finished(1)
    /\ pre[1].umask = 18
    /\ umask = 63
    /\ failed[1] = "chown"
    /\ outcome[1].kind = "PermissionError"
    /\ "home" \notin DOMAIN Before(1)
====
